---- MODULE Spec2Model ----
(***************************************************************************)
(* A model of twilio-ivr's state-route compiler and per-request handlers   *)
(* (src/lib/index.ts) together with the Sequelize session store            *)
(* (src/build/lib/session/store.js).                                       *)
(*                                                                         *)
(* The compile pass (states.forEach) walks the declared states, throws on  *)
(* the first one that is not usable and registers one POST route per      *)
(* routable state and one per normal state.  Once the app is returned,     *)
(* requests are dispatched to the registered handlers; a handler runs up   *)
(* to its next pending promise in one step, so that concurrent requests    *)
(* interleave at the asynchronous boundaries of the code.                  *)
(***************************************************************************)
EXTENDS Integers, Sequences, FiniteSets, TLC

VARIABLES states, phase, idx, routes, error, store, req, lastSet, log

vars == <<states, phase, idx, routes, error, store, req, lastSet, log>>

(***************************************************************************)
(* Bounds.                                                                 *)
(***************************************************************************)
\* longest declared state sequence handed to the compile function
MaxStates == 3
\* largest value of the session's step field
MaxStep == 1

\* the concurrent request slots (two requests may be in flight at once)
Requests == {"r1", "r2"}
\* call identifiers (CallSid) carried by requests
CallSids == {"CA1", "CA2"}
\* request bodies (the caller's choice)
Bodies == {"1", "2"}
Steps == 0..MaxStep

\* a missing string property (undefined)
None == "none"
\* the value undefined where an object is expected
Undefined == [undefined |-> TRUE]

(***************************************************************************)
(* The state objects a flow may declare or a transition may return.  Each  *)
(* records which properties the object has: name, uri, twimlFor (the       *)
(* rendering capability), processTransitionUri and transitionOut.          *)
(***************************************************************************)
\* routable and normal
StateA == [name |-> "A", uri |-> "/a", twimlFor |-> TRUE,
           processTransitionUri |-> "/a/next", transitionOut |-> TRUE]
\* routable only
StateB == [name |-> "B", uri |-> "/b", twimlFor |-> TRUE,
           processTransitionUri |-> None, transitionOut |-> FALSE]
\* normal only; its processTransitionUri is the path StateB uses as uri
StateN == [name |-> "N", uri |-> None, twimlFor |-> FALSE,
           processTransitionUri |-> "/b", transitionOut |-> TRUE]
\* can be rendered but has no uri: not routable
StateR == [name |-> "R", uri |-> None, twimlFor |-> TRUE,
           processTransitionUri |-> None, transitionOut |-> FALSE]
\* a name and nothing else
StateU == [name |-> "U", uri |-> None, twimlFor |-> FALSE,
           processTransitionUri |-> None, transitionOut |-> FALSE]
\* an object with no property at all
StateX == [name |-> None, uri |-> None, twimlFor |-> FALSE,
           processTransitionUri |-> None, transitionOut |-> FALSE]

\* the objects that may appear in the declared sequence
Declarable == {StateA, StateB, StateN, StateU, StateX}
\* the objects a transitionOut may resolve to, besides the state itself
Returnable == {StateB, StateR, StateN}

\* a flow declares each state object once
DeclaredSequences ==
    UNION {{f \in [1..n -> Declarable] :
               \A i, j \in 1..n : i # j => f[i] # f[j]} : n \in 1..MaxStates}

\* the flows that are compiled and then served: the two-state flow of a normal
\* state followed by a routable one, and both orders of two states that
\* declare the same path
ServedFlows == {<<StateA, StateB>>, <<StateB, StateN>>, <<StateN, StateB>>}

(***************************************************************************)
(* State classification (./state, StateTypes).                             *)
(***************************************************************************)
isUsableState(s) == s.name # None

isRoutableState(s) == s.uri # None /\ s.twimlFor

isNormalState(s) == s.processTransitionUri # None /\ s.transitionOut

\* (thisState && thisState.name) || String(thisState)
stateAsString(s) == IF s.name # None THEN s.name ELSE "[object Object]"

(***************************************************************************)
(* The session store: a table of rows keyed by the row's callSid.          *)
(***************************************************************************)
Rows == [callSid : CallSids, step : Steps, choice : Bodies \cup {None}]

\* callModel.upsert(value): insert the row, or overwrite the row that has
\* value's primary key; the result tells whether a row was inserted
upsert(table, value) ==
    [table |-> [k \in DOMAIN table \cup {value.callSid} |->
                    IF k = value.callSid THEN value ELSE table[k]],
     created |-> value.callSid \notin DOMAIN table]

\* a get whose query matches no row
get_findsNothing(table, callSid) == Undefined

\* SequelizeStore.get: the plain row with its userCall association, or
\* undefined when no row has this callSid
get(table, callSid) ==
    IF callSid \in DOMAIN table
    THEN [callSid |-> table[callSid].callSid, step |-> table[callSid].step,
          choice |-> table[callSid].choice, userCall |-> callSid]
    ELSE Undefined

\* set as it would be with findOrCreate in place of upsert: an existing row is
\* left as it is
set_findOrCreate(table, callSid, value) ==
    IF value.callSid \in DOMAIN table
    THEN [table |-> table, result |-> "updated"]
    ELSE [table |-> upsert(table, value).table, result |-> "created"]

\* SequelizeStore.set: upserts value (the callSid argument is not used) and
\* reports "created" or "updated"
set(table, callSid, value) ==
    LET r == upsert(table, value)
    IN  [table |-> r.table,
         result |-> IF r.created THEN "created" ELSE "updated"]

\* destroy reporting success whatever the number of deleted rows
destroy_anyCount(table, callSid) ==
    [table |-> [k \in {j \in DOMAIN table : table[j].callSid # callSid} |-> table[k]],
     result |-> TRUE]

\* SequelizeStore.destroy: deletes the rows whose callSid is the argument and
\* reports whether any row was deleted
destroy(table, callSid) ==
    LET deleted == {k \in DOMAIN table : table[k].callSid = callSid}
    IN  [table |-> [k \in DOMAIN table \ deleted |-> table[k]],
         result |-> Cardinality(deleted) > 0]

(***************************************************************************)
(* Initial state: the compile function has been called with a declared     *)
(* sequence and has not yet looked at any entry.                           *)
(***************************************************************************)
IdleRequest ==
    [pc |-> "idle", path |-> None, callSid |-> None, body |-> None,
     kind |-> None, state |-> StateX, session |-> Undefined,
     transitions |-> <<>>, updatedSession |-> Undefined, resultState |-> StateX,
     renders |-> <<>>, sent |-> 0, nextErr |-> 0, persisted |-> FALSE]

\* the compile function called with any declared sequence
InitCompile ==
    /\ states \in DeclaredSequences
    /\ phase = "compiling"
    /\ idx = 1
    /\ routes = <<>>
    /\ error = None
    /\ store = <<>>
    /\ req = [r \in Requests |-> IdleRequest]
    /\ lastSet = [c \in CallSids |-> None]
    /\ log = <<>>

Init ==
    /\ states \in ServedFlows
    /\ phase = "compiling"
    /\ idx = 1
    /\ routes = <<>>
    /\ error = None
    /\ store = <<>>
    /\ req = [r \in Requests |-> IdleRequest]
    /\ lastSet = [c \in CallSids |-> None]
    /\ log = <<>>

(***************************************************************************)
(* The compile pass: states.forEach(thisState => ...).                     *)
(***************************************************************************)
\* the transition route registered only for states that are not routable
routesFor_elseIf(i, thisState) ==
    IF isRoutableState(thisState)
    THEN <<[path |-> thisState.uri, state |-> i, kind |-> "direct"]>>
    ELSE IF isNormalState(thisState)
         THEN <<[path |-> thisState.processTransitionUri, state |-> i,
                 kind |-> "transition"]>>
         ELSE <<>>

\* the routes one usable state contributes, in registration order
routesFor(i, thisState) ==
    (IF isRoutableState(thisState)
     THEN <<[path |-> thisState.uri, state |-> i, kind |-> "direct"]>>
     ELSE <<>>)
    \o
    (IF isNormalState(thisState)
     THEN <<[path |-> thisState.processTransitionUri, state |-> i,
             kind |-> "transition"]>>
     ELSE <<>>)

\* an iteration that passes over an unusable state instead of throwing
CompileState_skipsInvalid ==
    /\ phase = "compiling"
    /\ idx <= Len(states)
    /\ routes' = IF isUsableState(states[idx])
                 THEN routes \o routesFor(idx, states[idx])
                 ELSE routes
    /\ idx' = idx + 1
    /\ UNCHANGED <<phase, error>>
    /\ UNCHANGED <<states, store, req, lastSet, log>>

\* one iteration of the forEach callback
CompileState ==
    /\ phase = "compiling"
    /\ idx <= Len(states)
    /\ IF ~isUsableState(states[idx])
       THEN /\ phase' = "aborted"
            /\ error' = "Invalid state provided: " \o stateAsString(states[idx])
            /\ UNCHANGED <<idx, routes>>
       ELSE /\ routes' = routes \o routesFor(idx, states[idx])
            /\ idx' = idx + 1
            /\ UNCHANGED <<phase, error>>
    /\ UNCHANGED <<states, store, req, lastSet, log>>

\* the app handed out while the pass may still have entries to visit
ReturnApp_early ==
    /\ phase = "compiling"
    /\ phase' = "serving"
    /\ UNCHANGED <<states, idx, routes, error, store, req, lastSet, log>>

\* return app: only now can requests reach the routes
ReturnApp ==
    /\ phase = "compiling"
    /\ idx > Len(states)
    /\ phase' = "serving"
    /\ UNCHANGED <<states, idx, routes, error, store, req, lastSet, log>>

(***************************************************************************)
(* Request handling.  A request carries a path, a call identifier and a    *)
(* body.  The session middleware loads the call's session from the store,  *)
(* then the router runs the first registered route that matches the path.  *)
(***************************************************************************)
HasRoute(path) == \E i \in 1..Len(routes) : routes[i].path = path

\* a router in which a later registration replaces an earlier one
Dispatch_lastMatch(path) ==
    routes[CHOOSE i \in 1..Len(routes) :
              /\ routes[i].path = path
              /\ \A j \in (i + 1)..Len(routes) : routes[j].path # path]

\* app.post routes are tried in registration order: the first match handles
\* the request (no handler here passes control on with a plain next())
Dispatch(path) ==
    routes[CHOOSE i \in 1..Len(routes) :
              /\ routes[i].path = path
              /\ \A j \in 1..(i - 1) : routes[j].path # path]

\* getSessionData(req): the session data of the loaded call session; a call
\* seen for the first time starts a fresh session
getSessionData(callSession, callSid) ==
    IF callSession = Undefined
    THEN [callSid |-> callSid, step |-> 0, choice |-> None]
    ELSE [callSid |-> callSession.callSid, step |-> callSession.step,
          choice |-> callSession.choice]

\* what thisState.transitionOut(sessionData, body) may settle to: a rejection,
\* or an updated session of the same call together with the next state
transitionOut(thisState, sessionData, body) ==
    {[rejected |-> TRUE, updatedSession |-> Undefined, resultState |-> StateX]}
    \cup
    {[rejected |-> FALSE,
      updatedSession |-> [callSid |-> sessionData.callSid, step |-> s, choice |-> c],
      resultState |-> n] :
        s \in Steps, c \in {sessionData.choice, body},
        n \in Returnable \cup {thisState}}

\* what renderState(state, ...) may settle to: a state without rendering
\* capability cannot be rendered, any other rendering may still fail
renderState(state) ==
    IF state.twimlFor THEN {"resolved", "rejected"} ELSE {"rejected"}

\* the arguments of renderState in the uri handler
directRenderArgs(rq) ==
    [state |-> rq.state, session |-> rq.session, input |-> rq.body,
     outcome |-> "pending"]

\* the processTransitionUri handler rendering with the session it loaded
transitionRenderArgs_loadedSession(rq) ==
    [state |-> rq.resultState, session |-> rq.session, input |-> None,
     outcome |-> "pending"]

\* the processTransitionUri handler handing the body on to renderState
transitionRenderArgs_withBody(rq) ==
    [state |-> rq.resultState, session |-> rq.updatedSession, input |-> rq.body,
     outcome |-> "pending"]

\* the arguments of renderState in the processTransitionUri handler
transitionRenderArgs(rq) ==
    [state |-> rq.resultState, session |-> rq.updatedSession, input |-> None,
     outcome |-> "pending"]

\* the middleware has loaded the session and the matching handler starts:
\* the uri handler calls renderState, the processTransitionUri handler calls
\* thisState.transitionOut
Receive(r, path, callSid, body) ==
    /\ phase = "serving"
    /\ req[r].pc = "idle"
    /\ HasRoute(path)
    /\ LET b  == Dispatch(path)
           rq == [req[r] EXCEPT !.path = path, !.callSid = callSid,
                                !.body = body, !.kind = b.kind,
                                !.state = states[b.state],
                                !.session = getSessionData(get(store, callSid), callSid)]
       IN  req' = [req EXCEPT ![r] =
                IF b.kind = "direct"
                THEN [rq EXCEPT !.pc = "rendering",
                                !.renders = Append(@, directRenderArgs(rq))]
                ELSE [rq EXCEPT !.pc = "transitioning",
                                !.transitions = Append(@, [session |-> rq.session,
                                                           input |-> rq.body,
                                                           outcome |-> "pending"])]]
    /\ UNCHANGED <<states, phase, idx, routes, error, store, lastSet, log>>

\* the transitionOut promise is fulfilled: the callback of line 115 calls
\* renderState on the result state with the updated session
TransitionResolved(r, out) ==
    /\ req[r].pc = "transitioning"
    /\ out \in transitionOut(req[r].state, req[r].session, req[r].body)
    /\ ~out.rejected
    /\ LET rq == [req[r] EXCEPT !.updatedSession = out.updatedSession,
                                !.resultState = out.resultState,
                                !.transitions[Len(req[r].transitions)].outcome = "resolved"]
       IN  req' = [req EXCEPT ![r] =
                [rq EXCEPT !.pc = "rendering",
                           !.renders = Append(@, transitionRenderArgs(rq))]]
    /\ UNCHANGED <<states, phase, idx, routes, error, store, lastSet, log>>

\* a rejected transitionOut handled like a transition that changed nothing
TransitionRejected_continues(r) ==
    /\ req[r].pc = "transitioning"
    /\ LET rq == [req[r] EXCEPT !.updatedSession = req[r].session,
                                !.resultState = req[r].state,
                                !.transitions[Len(req[r].transitions)].outcome = "rejected"]
       IN  req' = [req EXCEPT ![r] =
                [rq EXCEPT !.pc = "rendering",
                           !.renders = Append(@, [state |-> rq.resultState,
                                                  session |-> rq.updatedSession,
                                                  input |-> None,
                                                  outcome |-> "pending"])]]
    /\ UNCHANGED <<states, phase, idx, routes, error, store, lastSet, log>>

\* the transitionOut promise is rejected: then() was given no rejection
\* callback and its result is dropped, so nothing more runs for the request
TransitionRejected(r) ==
    /\ req[r].pc = "transitioning"
    /\ \E out \in transitionOut(req[r].state, req[r].session, req[r].body) :
          out.rejected
    /\ req' = [req EXCEPT ![r].pc = "done",
                          ![r].transitions[Len(req[r].transitions)].outcome = "rejected"]
    /\ UNCHANGED <<states, phase, idx, routes, error, store, lastSet, log>>

\* a handler that calls renderState a second time when the first call fails
RenderSettled_retries(r, outcome) ==
    /\ req[r].pc = "rendering"
    /\ outcome \in renderState(req[r].renders[Len(req[r].renders)].state)
    /\ LET settled == [req[r] EXCEPT !.renders[Len(req[r].renders)].outcome = outcome]
       IN  req' = [req EXCEPT ![r] =
                IF outcome = "resolved"
                THEN [settled EXCEPT !.pc = "rendered"]
                ELSE IF Len(settled.renders) = 1
                     THEN [settled EXCEPT !.renders =
                              Append(@, [settled.renders[1] EXCEPT !.outcome = "pending"])]
                     ELSE [settled EXCEPT !.pc = "renderFailed"]]
    /\ UNCHANGED <<states, phase, idx, routes, error, store, lastSet, log>>

\* the renderState promise settles
RenderSettled(r, outcome) ==
    /\ req[r].pc = "rendering"
    /\ outcome \in renderState(req[r].renders[Len(req[r].renders)].state)
    /\ req' = [req EXCEPT ![r].pc =
                            IF outcome = "resolved" THEN "rendered" ELSE "renderFailed",
                          ![r].renders[Len(req[r].renders)].outcome = outcome]
    /\ UNCHANGED <<states, phase, idx, routes, error, store, lastSet, log>>

\* the request is over once the document is out and, on a transition route,
\* the session is saved
AfterOutcome(rq) ==
    IF rq.sent + rq.nextErr > 0 /\ (rq.kind = "direct" \/ rq.persisted \/ rq.nextErr > 0)
    THEN "done" ELSE rq.pc

\* res.send called when the rendering settles, fulfilled or rejected
SendResponse_onAnySettle(r) ==
    /\ req[r].pc \in {"rendered", "renderFailed"}
    /\ req[r].sent = 0
    /\ LET rq == [req[r] EXCEPT !.sent = @ + 1]
       IN  req' = [req EXCEPT ![r] = [rq EXCEPT !.pc = AfterOutcome(rq)]]
    /\ UNCHANGED <<states, phase, idx, routes, error, store, lastSet, log>>

\* twiml => { res.send(twiml) }
SendResponse(r) ==
    /\ req[r].pc = "rendered"
    /\ req[r].sent = 0
    /\ LET rq == [req[r] EXCEPT !.sent = @ + 1]
       IN  req' = [req EXCEPT ![r] = [rq EXCEPT !.pc = AfterOutcome(rq)]]
    /\ UNCHANGED <<states, phase, idx, routes, error, store, lastSet, log>>

\* a rejection callback that answers with a default document
ForwardError_sendsDefault(r) ==
    /\ req[r].pc = "renderFailed"
    /\ req' = [req EXCEPT ![r].sent = @ + 1, ![r].pc = "done"]
    /\ UNCHANGED <<states, phase, idx, routes, error, store, lastSet, log>>

\* the rejection callback of renderState(...).then: next(err)
ForwardError(r) ==
    /\ req[r].pc = "renderFailed"
    /\ LET rq == [req[r] EXCEPT !.nextErr = @ + 1]
       IN  req' = [req EXCEPT ![r] = [rq EXCEPT !.pc = AfterOutcome(rq)]]
    /\ UNCHANGED <<states, phase, idx, routes, error, store, lastSet, log>>

\* the updated session of a rendered transition is saved under the call
\* identifier; the save and the sending of the response are not ordered
PersistSession(r) ==
    /\ req[r].pc = "rendered"
    /\ req[r].kind = "transition"
    /\ ~req[r].persisted
    /\ store' = set(store, req[r].callSid, req[r].updatedSession).table
    /\ lastSet' = [lastSet EXCEPT ![req[r].updatedSession.callSid] = r]
    /\ LET rq == [req[r] EXCEPT !.persisted = TRUE]
       IN  req' = [req EXCEPT ![r] = [rq EXCEPT !.pc = AfterOutcome(rq)]]
    /\ UNCHANGED <<states, phase, idx, routes, error, log>>

Paths == {"/a", "/a/next", "/b"}

\* every value a transitionOut promise can be fulfilled with
TransitionOutcomes ==
    [rejected : {FALSE},
     updatedSession : Rows,
     resultState : Returnable \cup Declarable]

Next ==
    \/ CompileState
    \/ ReturnApp
    \/ \E r \in Requests, p \in Paths, c \in CallSids, b \in Bodies :
          Receive(r, p, c, b)
    \/ \E r \in Requests, out \in TransitionOutcomes : TransitionResolved(r, out)
    \/ \E r \in Requests : TransitionRejected(r)
    \/ \E r \in Requests, o \in {"resolved", "rejected"} : RenderSettled(r, o)
    \/ \E r \in Requests : SendResponse(r)
    \/ \E r \in Requests : ForwardError(r)
    \/ \E r \in Requests : PersistSession(r)

Spec == Init /\ [][Next]_vars

(***************************************************************************)
(* The store used on its own: any client of the adapter may call get, set  *)
(* and destroy with any call identifier and any record.  log keeps the     *)
(* last two calls with their results.                                      *)
(***************************************************************************)
LastTwo(calls) ==
    IF Len(calls) > 2 THEN SubSeq(calls, Len(calls) - 1, Len(calls)) ELSE calls

InitStore ==
    /\ states = <<>>
    /\ phase = "compiling"
    /\ idx = 1
    /\ routes = <<>>
    /\ error = None
    /\ store = <<>>
    /\ req = [r \in Requests |-> IdleRequest]
    /\ lastSet = [c \in CallSids |-> None]
    /\ log = <<>>

StoreGet(callSid) ==
    /\ log' = LastTwo(Append(log, [op |-> "get", callSid |-> callSid,
                                   value |-> Undefined,
                                   result |-> get(store, callSid)]))
    /\ UNCHANGED <<states, phase, idx, routes, error, store, req, lastSet>>

StoreSet(callSid, value) ==
    /\ store' = set(store, callSid, value).table
    /\ log' = LastTwo(Append(log, [op |-> "set", callSid |-> callSid,
                                   value |-> value,
                                   result |-> [status |-> set(store, callSid, value).result]]))
    /\ UNCHANGED <<states, phase, idx, routes, error, req, lastSet>>

StoreDestroy(callSid) ==
    /\ store' = destroy(store, callSid).table
    /\ log' = LastTwo(Append(log, [op |-> "destroy", callSid |-> callSid,
                                   value |-> Undefined,
                                   result |-> [deleted |-> destroy(store, callSid).result]]))
    /\ UNCHANGED <<states, phase, idx, routes, error, req, lastSet>>

NextStore ==
    \/ \E c \in CallSids : StoreGet(c)
    \/ \E c \in CallSids, v \in Rows : StoreSet(c, v)
    \/ \E c \in CallSids : StoreDestroy(c)

StoreSpec == InitStore /\ [][NextStore]_vars

(***************************************************************************)
(* One caller sending its requests one after the other: a request starts   *)
(* only when the one before it is over.  log keeps what the last finished  *)
(* request was and what the store showed for its call when it was over.    *)
(***************************************************************************)
\* the request's transitionOut returned (sessionData, thisState)
ReturnedSelf(rq) ==
    /\ rq.kind = "transition"
    /\ Len(rq.transitions) = 1
    /\ rq.transitions[1].outcome = "resolved"
    /\ rq.updatedSession = rq.session
    /\ rq.resultState = rq.state

\* the handler has run to its end; the caller's next request may come in
Recycle(r) ==
    /\ req[r].pc = "done"
    /\ log' = <<[op |-> "request", callSid |-> req[r].callSid,
                 path |-> req[r].path, body |-> req[r].body,
                 returnedSelf |-> ReturnedSelf(req[r]),
                 stored |-> IF req[r].callSid \in DOMAIN store
                            THEN store[req[r].callSid] ELSE Undefined]>>
    /\ req' = [req EXCEPT ![r] = IdleRequest]
    /\ UNCHANGED <<states, phase, idx, routes, error, store, lastSet>>

NextSeq ==
    \/ CompileState
    \/ ReturnApp
    \/ \E p \in Paths, c \in CallSids, b \in Bodies : Receive("r1", p, c, b)
    \/ \E out \in TransitionOutcomes : TransitionResolved("r1", out)
    \/ TransitionRejected("r1")
    \/ \E o \in {"resolved", "rejected"} : RenderSettled("r1", o)
    \/ SendResponse("r1")
    \/ ForwardError("r1")
    \/ PersistSession("r1")
    \/ Recycle("r1")

SeqSpec == Init /\ [][NextSeq]_vars

\* the compile pass alone, over every declared sequence
NextCompile ==
    \/ CompileState
    \/ ReturnApp

CompileSpec == InitCompile /\ [][NextCompile]_vars

(***************************************************************************)
(* Properties.                                                             *)
(***************************************************************************)
\* the request's transitionOut promise was fulfilled / rejected
TransitionFulfilled(rq) ==
    Len(rq.transitions) > 0 /\ rq.transitions[Len(rq.transitions)].outcome = "resolved"

TransitionFailed(rq) ==
    Len(rq.transitions) > 0 /\ rq.transitions[Len(rq.transitions)].outcome = "rejected"

\* the request's last renderState promise was fulfilled / rejected
RenderSucceeded(rq) ==
    Len(rq.renders) > 0 /\ rq.renders[Len(rq.renders)].outcome = "resolved"

RenderFailed(rq) ==
    Len(rq.renders) > 0 /\ rq.renders[Len(rq.renders)].outcome = "rejected"

\* the row stored under callSid is exactly session
Holds(callSid, session) ==
    callSid \in DOMAIN store /\ store[callSid] = session

C2_LastWriterWins ==
    \A r1, r2 \in Requests :
       (/\ r1 # r2
        /\ req[r1].kind = "transition" /\ req[r2].kind = "transition"
        /\ req[r1].callSid = req[r2].callSid
        /\ req[r1].session = req[r2].session
        /\ req[r1].persisted /\ req[r2].persisted
        /\ req[r1].updatedSession # req[r2].updatedSession)
       => /\ lastSet[req[r1].callSid] \in {r1, r2}
          /\ Holds(req[r1].callSid, req[lastSet[req[r1].callSid]].updatedSession)
          /\ store[req[r1].callSid] \in {req[r1].updatedSession, req[r2].updatedSession}

\* both sets have landed; the two updates differ in every field and from the
\* session both requests loaded
C2_Witness ==
    \E r1, r2 \in Requests :
       /\ r1 # r2
       /\ req[r1].kind = "transition" /\ req[r2].kind = "transition"
       /\ req[r1].callSid = req[r2].callSid
       /\ req[r1].session = req[r2].session
       /\ req[r1].persisted /\ req[r2].persisted
       /\ req[r1].updatedSession.step # req[r2].updatedSession.step
       /\ req[r1].updatedSession.choice # req[r2].updatedSession.choice
       /\ req[r1].updatedSession # req[r1].session
       /\ req[r2].updatedSession # req[r1].session
       /\ lastSet[req[r1].callSid] = r1
       /\ req[r1].pc = "done" /\ req[r2].pc = "done"

\* C3: a request whose transitionOut was rejected never saves a session: the
\* rejection and every later step of that request leave the store as it is.
C3_FailedTransitionLeavesStore ==
    /\ [](\A r \in Requests :
             TransitionFailed(req[r]) => ~req[r].persisted /\ req[r].pc = "done")
    /\ [][\A r \in Requests :
             (TransitionFailed(req'[r]) /\ req'[r] # req[r]) => store' = store]_vars

\* a transition was rejected for a call whose session another request had saved
C3_Witness ==
    \E r \in Requests :
       /\ TransitionFailed(req[r])
       /\ req[r].callSid \in DOMAIN store

\* C4: a request whose transitionOut was rejected ends with next(err) called
\* and no response sent.
C4_FailedTransitionForwarded ==
    \A r \in Requests :
       (req[r].pc = "done" /\ TransitionFailed(req[r]))
       => req[r].nextErr = 1 /\ req[r].sent = 0

\* C5: on either kind of route, a request whose rendering failed sends no
\* document, and ends with next(err) called exactly once.
C5_RenderFailureForwarded ==
    \A r \in Requests :
       RenderFailed(req[r])
       => /\ req[r].sent = 0
          /\ req[r].pc \in {"renderFailed", "done"}
          /\ (req[r].pc = "done" => req[r].nextErr = 1)

\* a failed rendering on a direct route and one on a transition route, both
\* forwarded
C5_Witness ==
    \E r1, r2 \in Requests :
       /\ req[r1].kind = "direct" /\ req[r2].kind = "transition"
       /\ RenderFailed(req[r1]) /\ RenderFailed(req[r2])
       /\ req[r1].pc = "done" /\ req[r2].pc = "done"
       /\ req[r1].nextErr = 1 /\ req[r2].nextErr = 1

\* C6: when a transition resolves to a next state that is not routable, no
\* rendering of that state succeeds, no response is sent, and the request ends
\* with next(err) called.
C6_NonRoutableNextStateFails ==
    \A r \in Requests :
       (TransitionFulfilled(req[r]) /\ ~isRoutableState(req[r].resultState))
       => /\ ~RenderSucceeded(req[r])
          /\ req[r].sent = 0
          /\ (req[r].pc = "done" => req[r].nextErr = 1)

\* some declared entry is not usable; the first such entry
HasInvalid == \E i \in 1..Len(states) : ~isUsableState(states[i])

FirstInvalid ==
    CHOOSE i \in 1..Len(states) :
       /\ ~isUsableState(states[i])
       /\ \A j \in 1..(i - 1) : isUsableState(states[j])

\* C7: when a declared entry is not usable the app is never returned: the pass
\* never gets beyond the first such entry, and it stops there with the error
\* that names the entry.
C7_InvalidStateAbortsCompile ==
    HasInvalid
    => /\ phase # "serving"
       /\ idx <= FirstInvalid
       /\ (phase = "aborted"
             => /\ idx = FirstInvalid
                /\ error = "Invalid state provided: "
                              \o stateAsString(states[FirstInvalid]))
       /\ (idx = FirstInvalid /\ phase = "compiling" => ENABLED CompileState)

\* the pass aborted on an entry that follows usable ones
C7_Witness ==
    /\ HasInvalid
    /\ phase = "aborted"
    /\ FirstInvalid > 1

\* the state has neither a uri nor a processTransitionUri/transition operation
LacksBoth(s) ==
    s.uri = None /\ s.processTransitionUri = None /\ ~s.transitionOut

C9_AbortBeforeAnyRoute ==
    phase = "aborted" => routes = <<>>

\* the routes at a path, and the routes of one kind registered for entry i
RoutesAt(path) == {k \in 1..Len(routes) : routes[k].path = path}

RoutesOf(i, kind) ==
    {k \in 1..Len(routes) : routes[k].state = i /\ routes[k].kind = kind}

\* C10 as stated: after a successful pass exactly one route exists at the uri
\* of every routable state and exactly one at the processTransitionUri of every
\* normal state, a state that is both has two distinct routes, and there is no
\* other route.
C10_OneRoutePerPath ==
    phase = "serving"
    => /\ \A i \in 1..Len(states) :
             /\ isRoutableState(states[i])
                  => Cardinality(RoutesAt(states[i].uri)) = 1
             /\ isNormalState(states[i])
                  => Cardinality(RoutesAt(states[i].processTransitionUri)) = 1
             /\ (isRoutableState(states[i]) /\ isNormalState(states[i]))
                  => Cardinality(RoutesOf(i, "direct") \cup RoutesOf(i, "transition")) = 2
       /\ \A k \in 1..Len(routes) :
             \/ /\ routes[k].kind = "direct"
                /\ isRoutableState(states[routes[k].state])
                /\ routes[k].path = states[routes[k].state].uri
             \/ /\ routes[k].kind = "transition"
                /\ isNormalState(states[routes[k].state])
                /\ routes[k].path = states[routes[k].state].processTransitionUri

\* C10 amended: after a successful pass every routable state has exactly one
\* direct route, at its uri, every normal state has exactly one transition
\* route, at its processTransitionUri, a state that is both has these two
\* distinct routes, and there is no other route; a path that several states
\* declare carries one route for each of them.
C10_OneRoutePerStateAndKind ==
    phase = "serving"
    => /\ \A i \in 1..Len(states) :
             /\ Cardinality(RoutesOf(i, "direct")) =
                   (IF isRoutableState(states[i]) THEN 1 ELSE 0)
             /\ Cardinality(RoutesOf(i, "transition")) =
                   (IF isNormalState(states[i]) THEN 1 ELSE 0)
             /\ \A k \in RoutesOf(i, "direct") : routes[k].path = states[i].uri
             /\ \A k \in RoutesOf(i, "transition") :
                   routes[k].path = states[i].processTransitionUri
       /\ \A k \in 1..Len(routes) :
             /\ routes[k].state \in 1..Len(states)
             /\ routes[k].kind \in {"direct", "transition"}
       /\ \A p \in Paths :
             Cardinality(RoutesAt(p)) =
                Cardinality({i \in 1..Len(states) :
                                isRoutableState(states[i]) /\ states[i].uri = p})
                + Cardinality({i \in 1..Len(states) :
                                isNormalState(states[i])
                                /\ states[i].processTransitionUri = p})

\* a compiled flow with a state that is both routable and normal and with two
\* states that declare the same path
C10_Witness ==
    /\ phase = "serving"
    /\ \E i \in 1..Len(states) :
          /\ isRoutableState(states[i]) /\ isNormalState(states[i])
          /\ Cardinality(RoutesOf(i, "direct") \cup RoutesOf(i, "transition")) = 2
    /\ \E p \in Paths : Cardinality(RoutesAt(p)) = 2

\* the first and the last registered route at a path
FirstRouteAt(path) ==
    routes[CHOOSE i \in RoutesAt(path) : \A j \in RoutesAt(path) : i <= j]

LastRouteAt(path) ==
    routes[CHOOSE i \in RoutesAt(path) : \A j \in RoutesAt(path) : i >= j]

\* the handler of route b, and no other handler, has acted for the request
HandledBy(rq, b) ==
    /\ rq.kind = b.kind
    /\ rq.state = states[b.state]
    /\ b.kind = "direct"
         => /\ rq.transitions = <<>>
            /\ ~rq.persisted
            /\ \A k \in 1..Len(rq.renders) : rq.renders[k].state = states[b.state]
    /\ b.kind = "transition"
         => /\ Len(rq.transitions) = 1
            /\ \A k \in 1..Len(rq.renders) : rq.renders[k].input = None

\* C11 as stated: a request to a path is handled by the route registered last
\* at that path.
C11_LastRegistrationHandles ==
    \A r \in Requests :
       req[r].pc # "idle" => HandledBy(req[r], LastRouteAt(req[r].path))

\* C11 amended: a request to a path is handled by the route registered first
\* at that path; the handler of a route registered later at the same path does
\* not act for the request.
C11_FirstRegistrationHandles ==
    \A r \in Requests :
       req[r].pc # "idle" => HandledBy(req[r], FirstRouteAt(req[r].path))

\* an answered request to a path at which two routes of different kinds are
\* registered
C11_Witness ==
    \E r \in Requests :
       /\ req[r].pc = "done"
       /\ req[r].sent = 1
       /\ Cardinality(RoutesAt(req[r].path)) = 2
       /\ FirstRouteAt(req[r].path).kind # LastRouteAt(req[r].path).kind

\* C12: on a direct route the body goes to renderState and to no transition; on
\* a transition route the body goes to transitionOut exactly once and every
\* rendering of the request gets an absent input.
C12_InputConsumedOnce ==
    \A r \in Requests :
       req[r].pc # "idle"
       => /\ req[r].kind = "direct"
               => /\ req[r].transitions = <<>>
                  /\ \A k \in 1..Len(req[r].renders) :
                        req[r].renders[k].input = req[r].body
          /\ req[r].kind = "transition"
               => /\ Len(req[r].transitions) = 1
                  /\ req[r].transitions[1].input = req[r].body
                  /\ \A k \in 1..Len(req[r].renders) :
                        req[r].renders[k].input = None
          /\ ~(/\ req[r].transitions # <<>>
               /\ \E k \in 1..Len(req[r].renders) : req[r].renders[k].input # None)

\* an answered direct request whose rendering got the body, and an answered
\* transition request whose rendering got no input
C12_Witness ==
    \E r1, r2 \in Requests :
       /\ req[r1].kind = "direct" /\ req[r1].sent = 1
       /\ req[r1].renders[1].input = req[r1].body
       /\ req[r2].kind = "transition" /\ req[r2].sent = 1
       /\ req[r2].transitions[1].input = req[r2].body
       /\ req[r2].renders[1].input = None

\* a record as a client compares it: without the association the store adds
WithoutMetadata(record) ==
    IF record = Undefined
    THEN Undefined
    ELSE [callSid |-> record.callSid, step |-> record.step, choice |-> record.choice]

\* the table holds a record for the call identifier
HasRecord(table, callSid) ==
    \E k \in DOMAIN table : table[k].callSid = callSid

\* the last call, and whether this step is a call of the named method
LastCall(calls) == calls[Len(calls)]

CallStep(op) == log' # log /\ LastCall(log').op = op

\* the last two calls were first(c, ...) and then second(c, ...)
Consecutive(first, second) ==
    /\ Len(log) = 2
    /\ log[1].op = first
    /\ log[2].op = second
    /\ log[1].callSid = log[2].callSid

\* C13: set(c, v) followed immediately by get(c) returns a record equal to v
\* but for the metadata the store adds.
C13_SetThenGetReturnsValue ==
    Consecutive("set", "get")
    => WithoutMetadata(log[2].result) = log[1].value

\* C14: destroy(c) where no record is stored under c returns false and leaves
\* the store unchanged; destroy(c) where a record is stored returns true, and a
\* get(c) that follows returns undefined.
C14_DestroyReportsAndRemoves ==
    /\ [][CallStep("destroy")
            => LET c == LastCall(log').callSid
                   deleted == LastCall(log').result.deleted
               IN  /\ ~HasRecord(store, c) => (~deleted /\ store' = store)
                   /\ HasRecord(store, c)
                        => (deleted /\ ~HasRecord(store', c)
                                    /\ get(store', c) = Undefined)]_vars
    /\ []((Consecutive("destroy", "get") /\ log[1].result.deleted)
             => log[2].result = Undefined)

\* a destroy that removed a record followed by a get that found none, while
\* the record of another call is still stored
C14_Witness ==
    /\ Consecutive("destroy", "get")
    /\ log[1].result.deleted
    /\ log[2].result = Undefined
    /\ \E d \in CallSids : d # log[1].callSid /\ HasRecord(store, d)

\* C15: set(c, v) reports "created" exactly when no record was stored under c
\* before the call and "updated" exactly when one was, and a record is stored
\* under c afterwards.
C15_SetReportsCreatedOrUpdated ==
    [][CallStep("set")
         => LET c == LastCall(log').callSid
                status == LastCall(log').result.status
            IN  /\ status = "created" <=> ~HasRecord(store, c)
                /\ status = "updated" <=> HasRecord(store, c)
                /\ HasRecord(store', c)]_vars

\* C20: a call of get, set or destroy with call identifier c leaves the record
\* stored under every other call identifier as it was.
C20_CallsConfinedToKey ==
    [][log' # log
         => \A d \in CallSids \ {LastCall(log').callSid} :
               get(store', d) = get(store, d)]_vars

\* the finished request r repeats the request that finished just before it:
\* same route, same call identifier, same body, and in both the state's
\* transitionOut returned (sessionData, thisState)
RepeatsLastRequest(r) ==
    /\ req[r].pc = "done"
    /\ ReturnedSelf(req[r])
    /\ log # <<>>
    /\ log[1].returnedSelf
    /\ log[1].callSid = req[r].callSid
    /\ log[1].path = req[r].path
    /\ log[1].body = req[r].body

\* the record stored under callSid, and the session content a record stands for
\* (no record: the session a call starts with)
StoredUnder(callSid) ==
    IF callSid \in DOMAIN store THEN store[callSid] ELSE Undefined

SessionShown(record, callSid) ==
    IF record = Undefined
    THEN [callSid |-> callSid, step |-> 0, choice |-> None]
    ELSE record

RECURSIVE RoutesOfFirst(_)
RoutesOfFirst(n) ==
    IF n = 0 THEN <<>> ELSE RoutesOfFirst(n - 1) \o routesFor(n, states[n])

\* C17: the pass visits the declared states one by one, each once; the app is
\* returned only when the pass has visited them all, and no request is handled
\* before that; once the app is returned no pass runs again and no step of any
\* request, succeeding or failing, changes the route bindings.
C17_CompileOnceThenRoutesFixed ==
    /\ [](phase = "serving"
            => idx = Len(states) + 1 /\ routes = RoutesOfFirst(Len(states)))
    /\ [](\A r \in Requests : req[r].pc # "idle" => phase = "serving")
    /\ [][/\ (idx' # idx => phase = "compiling" /\ idx' = idx + 1)
          /\ (phase = "serving"
                => phase' = "serving" /\ routes' = routes /\ idx' = idx)]_vars

\* after the pass: a direct request answered and a transition request that
\* failed, with the bindings of the whole declared sequence in place
C17_Witness ==
    /\ phase = "serving"
    /\ routes = RoutesOfFirst(Len(states))
    /\ Len(routes) > Len(states)
    /\ \E r1, r2 \in Requests :
          /\ req[r1].kind = "direct" /\ req[r1].pc = "done" /\ req[r1].sent = 1
          /\ req[r2].kind = "transition" /\ req[r2].pc = "done"
          /\ req[r2].sent = 0

\* C18: a request that a handler has taken up has called transitionOut exactly
\* once and renderState at most once if it came in on a transition route (not
\* at all when the transition failed, once when it succeeded), and has called
\* renderState exactly once and transitionOut never if it came in on a direct
\* route, whatever the outcome of the calls.
C18_NothingRetried ==
    \A r \in Requests :
       /\ req[r].kind = "transition"
            => /\ Len(req[r].transitions) = 1
               /\ Len(req[r].renders) <= 1
               /\ (TransitionFailed(req[r]) => Len(req[r].renders) = 0)
               /\ (TransitionFulfilled(req[r]) => Len(req[r].renders) = 1)
       /\ req[r].kind = "direct"
            => /\ Len(req[r].transitions) = 0
               /\ Len(req[r].renders) = 1

\* a direct request whose rendering failed and a transition request whose
\* transition failed, both over
C18_Witness ==
    \E r1, r2 \in Requests :
       /\ req[r1].kind = "direct" /\ req[r1].pc = "done" /\ RenderFailed(req[r1])
       /\ req[r2].kind = "transition" /\ req[r2].pc = "done"
       /\ TransitionFailed(req[r2])

\* C19: no request has res.send called more than once, next(err) called more
\* than once, or both of them called.
C19_AtMostOneOutcome ==
    \A r \in Requests :
       /\ req[r].sent <= 1
       /\ req[r].nextErr <= 1
       /\ req[r].sent + req[r].nextErr <= 1

\* a transition request answered with a document and a transition request
\* ended with next(err), both over
C19_Witness ==
    \E r1, r2 \in Requests :
       /\ req[r1].kind = "transition" /\ req[r2].kind = "transition"
       /\ req[r1].pc = "done" /\ req[r1].sent = 1 /\ req[r1].nextErr = 0
       /\ req[r2].pc = "done" /\ req[r2].sent = 0 /\ req[r2].nextErr = 1
====
